---- MODULE Spec2Model ----
(***************************************************************************)
(* Model of the document question-answering service: rag.py (the ingestion *)
(* generator process_documents, generate_answer, initialize_components)    *)
(* and api.py (the FastAPI handlers upload_documents, query_documents,     *)
(* reset_knowledge_base, get_statistics running on one asyncio event loop).*)
(*                                                                         *)
(* Scores are distances in tenths (2.5 is 25).  A segment is modelled by   *)
(* its source file and the length of its text, a chunk by its source and   *)
(* the identifier it is stored under.                                      *)
(***************************************************************************)
EXTENDS Integers, Sequences, FiniteSets, TLC

VARIABLES
    llm,            \* rag.llm: "None" or "Ready"
    vector_store,   \* rag.vector_store: "None" or "Ready"
    collection,     \* the persisted Chroma collection: a set of stored chunks
    handlers,       \* request id -> frame of the upload handler in flight
    resp,           \* the response of the request that ended last
    last,           \* the last upload, reset or restart, summarised
    uploads,        \* number of upload requests so far
    env             \* which external calls raised during the last query

vars == <<llm, vector_store, collection, handlers, resp, last, uploads, env>>

----------------------------------------------------------------------------
\* Program constants

CHUNK_SIZE == 1000
CHUNK_OVERLAP == 200
TOP_K == 6
RELEVANCE_THRESHOLD == 25
FALLBACK_TOP == 4
MAX_CONTEXT == 5

\* Bounds of the model

MaxFiles == 2
MaxUploads == 2

\* Text lengths a loaded segment may have, and distances a hit may have
\* (ascending: below, at and above the threshold)
SegLens == {0, 500, 3000}
Scores == <<10, 25, 40>>

----------------------------------------------------------------------------
\* Helpers

Min(a, b) == IF a < b THEN a ELSE b

\* s[:n] of Python
Take(s, n) == SubSeq(s, 1, Min(n, Len(s)))

\* [x for x in s if Test(x)], by index: the ranks of s that pass
RECURSIVE RanksBelow(_, _, _)
RanksBelow(hits, i, limit) ==
    IF i > Len(hits) THEN <<>>
    ELSE (IF hits[i] < limit THEN <<i>> ELSE <<>>) \o RanksBelow(hits, i + 1, limit)

Ranks(n) == [i \in 1..n |-> i]

\* n copies of x
Rep(n, x) == [i \in 1..n |-> x]

\* What similarity_search_with_score(query, k) can return on a collection
\* of cnt chunks: at most k hits, at most cnt, ascending by distance
HitLists(cnt) ==
    LET m == Min(TOP_K, cnt) IN
    { Rep(a, Scores[1]) \o Rep(b, Scores[2]) \o Rep(c, Scores[3]) :
        <<a, b, c>> \in { t \in (0..m) \X (0..m) \X (0..m) : t[1] + t[2] + t[3] <= m } }

Msg(kind, file, n) == [kind |-> kind, file |-> file, n |-> n]

NoResp == [kind |-> "none"]

Failures(cf, sf, lf) == [count |-> cf, search |-> sf, llm |-> lf]

NoFailure == Failures(FALSE, FALSE, FALSE)

----------------------------------------------------------------------------
\* rag.generate_answer

\* relevant_docs = [doc for doc, score in docs_with_scores if score < 2.5]
RelevantDocs(hits) == RanksBelow(hits, 1, RELEVANCE_THRESHOLD)

\* Mutant of WithFallback: the fallback branch is missing
WithFallbackMissing(hits) == RelevantDocs(hits)

\* if not relevant_docs: relevant_docs = docs_with_scores[:4]
WithFallback(hits) ==
    IF RelevantDocs(hits) = <<>> THEN Ranks(Min(FALLBACK_TOP, Len(hits)))
    ELSE RelevantDocs(hits)

\* Mutant of ContextOf: relevant_docs is used without the [:5]
ContextOfUntruncated(hits) == WithFallback(hits)

\* for i, doc in enumerate(relevant_docs[:5], 1): the chunks put in the prompt
ContextOf(hits) == Take(WithFallback(hits), MAX_CONTEXT)

\* "\n".join(f"- {src}" for src in sorted(sources)): empty exactly when no
\* chunk contributed a label
FormatSources(ctx) == IF ctx = <<>> THEN "" ELSE "labels"

Answer(raised, text, sources, hits, ctx, searched, invoked) ==
    [raised |-> raised, answer |-> text, sources |-> sources, hits |-> hits,
     ctx |-> ctx, searched |-> searched, invoked |-> invoked]

\* Mutant of GenerateAnswer: the model call is outside any try
GenerateAnswerLlmUncaught(vs, cnt, countFails, searchFails, hits, llmFails) ==
    IF vs = "None"
    THEN Answer("RuntimeError", "", "", <<>>, <<>>, FALSE, FALSE)
    ELSE IF ~countFails /\ cnt = 0
    THEN Answer("no", "kb_empty", "", <<>>, <<>>, FALSE, FALSE)
    ELSE IF searchFails
    THEN Answer("no", "error_searching", "", <<>>, <<>>, TRUE, FALSE)
    ELSE IF hits = <<>>
    THEN Answer("no", "no_relevant", "", hits, <<>>, TRUE, FALSE)
    ELSE IF llmFails
    THEN Answer("Exception", "", "", hits, ContextOf(hits), TRUE, TRUE)
    ELSE Answer("no", "generated", FormatSources(ContextOf(hits)), hits,
                ContextOf(hits), TRUE, TRUE)

\* Mutant of GenerateAnswer: the "if count == 0" return is missing
GenerateAnswerNoEmptyCheck(vs, cnt, countFails, searchFails, hits, llmFails) ==
    IF vs = "None"
    THEN Answer("RuntimeError", "", "", <<>>, <<>>, FALSE, FALSE)
    ELSE IF searchFails
    THEN Answer("no", "error_searching", "", <<>>, <<>>, TRUE, FALSE)
    ELSE IF hits = <<>>
    THEN Answer("no", "no_relevant", "", hits, <<>>, TRUE, FALSE)
    ELSE IF llmFails
    THEN Answer("no", "error_generating", "", hits, ContextOf(hits), TRUE, TRUE)
    ELSE Answer("no", "generated", FormatSources(ContextOf(hits)), hits,
                ContextOf(hits), TRUE, TRUE)

\* vs: the store handle; cnt: chunks in the collection; countFails,
\* searchFails, llmFails: which external call raises; hits: what the
\* similarity query returns when it does not raise
GenerateAnswer(vs, cnt, countFails, searchFails, hits, llmFails) ==
    IF vs = "None"
    THEN Answer("RuntimeError", "", "", <<>>, <<>>, FALSE, FALSE)
    ELSE IF ~countFails /\ cnt = 0
    THEN Answer("no", "kb_empty", "", <<>>, <<>>, FALSE, FALSE)
    ELSE IF searchFails
    THEN Answer("no", "error_searching", "", <<>>, <<>>, TRUE, FALSE)
    ELSE IF hits = <<>>
    THEN Answer("no", "no_relevant", "", hits, <<>>, TRUE, FALSE)
    ELSE IF llmFails
    THEN Answer("no", "error_generating", "", hits, ContextOf(hits), TRUE, TRUE)
    ELSE Answer("no", "generated", FormatSources(ContextOf(hits)), hits,
                ContextOf(hits), TRUE, TRUE)

----------------------------------------------------------------------------
\* rag.load_document / RecursiveCharacterTextSplitter.split_documents

\* What load_document can do with one file: raise, or return segments
LoadOutcomes ==
    {[ok |-> FALSE, lens |-> <<>>]} \cup
    {[ok |-> TRUE, lens |-> l] : l \in {<<>>, <<500, 3000>>} \cup {<<x>> : x \in SegLens}}

\* doc.metadata['source'] = file_path.name on every segment of the file
Stamp(file, lens) == [i \in 1..Len(lens) |-> [source |-> file, len |-> lens[i]]]

\* Chunks the splitter makes of a text of the given length: none of an empty
\* text, one up to CHUNK_SIZE, then one more per CHUNK_SIZE - CHUNK_OVERLAP
SplitCount(len) ==
    IF len = 0 THEN 0
    ELSE IF len <= CHUNK_SIZE THEN 1
    ELSE 1 + ((len - CHUNK_SIZE) + (CHUNK_SIZE - CHUNK_OVERLAP) - 1)
                 \div (CHUNK_SIZE - CHUNK_OVERLAP)

\* splitter.split_documents(all_documents): every chunk keeps the metadata
\* of its segment
RECURSIVE SplitDocuments(_)
SplitDocuments(docs) ==
    IF docs = <<>> THEN <<>>
    ELSE [i \in 1..SplitCount(Head(docs).len) |-> [source |-> Head(docs).source]]
         \o SplitDocuments(Tail(docs))

\* sum(len(doc.page_content) for doc in all_documents)
RECURSIVE TotalChars(_)
TotalChars(docs) ==
    IF docs = <<>> THEN 0 ELSE Head(docs).len + TotalChars(Tail(docs))

\* The first n chunks as stored by add_documents of request r, each under
\* its identifier: ids are fresh (uuid4), modelled as the pair of the
\* request and the position
Stored(r, n) == {<<r, k>> : k \in 1..n}

----------------------------------------------------------------------------
\* The event loop and the handlers' frames

NoFrames == [x \in {} |-> 0]

WithFrame(h, r, f) == [x \in DOMAIN h \cup {r} |-> IF x = r THEN f ELSE h[x]]

WithoutFrame(h, r) == [x \in DOMAIN h \ {r} |-> h[x]]

\* Mutant of LoopIdle: a handler is started while another is suspended
LoopNeverBusy == TRUE

\* The handlers are coroutines without an await: the loop starts the next
\* one only when the one running has returned
LoopIdle == DOMAIN handlers = {}

Event(kind, final, n) == [kind |-> kind, final |-> final, n |-> n]

Yield(f, pc, msg) == [f EXCEPT !.pc = pc, !.stream = Append(@, msg)]

TerminalKinds == {"success", "no_documents", "chunk_failed", "storage_error"}

\* upload_documents after the loop over the generator: the last message is
\* the status, the chunk count is parsed out of it
UploadResponse(r, f) ==
    LET final == f.stream[Len(f.stream)] IN
    [kind |-> "upload", http |-> 200, req |-> r, stream |-> f.stream,
     files_processed |-> f.nfiles, final |-> final.kind,
     chunks_created |-> IF final.kind = "success" THEN final.n ELSE 0,
     created |-> Len(f.chunks), outcomes |-> f.outcomes]

\* except Exception: raise HTTPException(500): the generator raised
UploadError(r, f) ==
    [kind |-> "upload", http |-> 500, req |-> r, stream |-> f.stream,
     files_processed |-> f.nfiles, final |-> "exception", chunks_created |-> 0,
     created |-> Len(f.chunks), outcomes |-> f.outcomes]

----------------------------------------------------------------------------
TypeOK ==
    /\ llm \in {"None", "Ready"}
    /\ vector_store \in {"None", "Ready"}
    /\ uploads \in 0..MaxUploads
    /\ vector_store = "Ready" => llm = "Ready"

Init ==
    /\ llm = "None"
    /\ vector_store = "None"
    /\ collection = {}
    /\ handlers = NoFrames
    /\ resp = NoResp
    /\ last = Event("none", "", 0)
    /\ uploads = 0
    /\ env = NoFailure

----------------------------------------------------------------------------
\* POST /v1/upload-documents: upload_documents driving process_documents

\* The request is dispatched with n saved files; the generator runs to its
\* first yield
UploadStart(n) ==
    /\ LoopIdle
    /\ uploads < MaxUploads
    /\ uploads' = uploads + 1
    /\ handlers' = WithFrame(handlers, uploads + 1,
           [pc |-> "initializing", nfiles |-> n, idx |-> 0, outcomes |-> <<>>,
            all_documents |-> <<>>, chunks |-> <<>>,
            stream |-> <<Msg("initializing", 0, 0)>>])
    /\ last' = Event("upload", "in_flight", 0)
    /\ resp' = NoResp
    /\ UNCHANGED <<llm, vector_store, collection, env>>

\* initialize_components() returns
InitializeOk(r) ==
    /\ handlers[r].pc = "initializing"
    /\ llm' = "Ready"
    /\ vector_store' = "Ready"
    /\ handlers' = [handlers EXCEPT ![r] = Yield(@, "clearing", Msg("clearing", 0, 0))]
    /\ UNCHANGED <<collection, resp, last, uploads, env>>

\* ChatGroq(...) raises: nothing is set
InitializeLlmFails(r) ==
    /\ handlers[r].pc = "initializing"
    /\ llm = "None"
    /\ resp' = UploadError(r, handlers[r])
    /\ last' = Event("upload", "exception", 0)
    /\ handlers' = WithoutFrame(handlers, r)
    /\ UNCHANGED <<llm, vector_store, collection, uploads, env>>

\* HuggingFaceEmbeddings(...) or Chroma(...) raises: llm is set, the store not
InitializeStoreFails(r) ==
    /\ handlers[r].pc = "initializing"
    /\ vector_store = "None"
    /\ llm' = "Ready"
    /\ resp' = UploadError(r, handlers[r])
    /\ last' = Event("upload", "exception", 0)
    /\ handlers' = WithoutFrame(handlers, r)
    /\ UNCHANGED <<vector_store, collection, uploads, env>>

\* Mutant of ResetCollection: the collection is not emptied
ResetCollectionKeeps(c) == c

\* vector_store.reset_collection() on the path that returns
ResetCollection(c) == {}

ClearOk(r) ==
    /\ handlers[r].pc = "clearing"
    /\ collection' = ResetCollection(collection)
    /\ handlers' = [handlers EXCEPT ![r] =
           Yield(@, "loading", Msg("loading", 0, handlers[r].nfiles))]
    /\ UNCHANGED <<llm, vector_store, resp, last, uploads, env>>

\* vector_store.reset_collection() raises, before or after the delete
ClearFails(r) ==
    /\ handlers[r].pc = "clearing"
    /\ collection' \in {collection, {}}
    /\ resp' = UploadError(r, handlers[r])
    /\ last' = Event("upload", "exception", 0)
    /\ handlers' = WithoutFrame(handlers, r)
    /\ UNCHANGED <<llm, vector_store, uploads, env>>

\* Mutant of LoadStep: a failing file ends the loop (break for continue)
LoadStepBreaks(f, o) ==
    LET file == f.idx + 1 IN
    IF o.ok
    THEN Yield([f EXCEPT !.idx = file, !.outcomes = Append(@, o),
                         !.all_documents = @ \o Stamp(file, o.lens)],
               "loading", Msg("loaded", file, Len(o.lens)))
    ELSE Yield([f EXCEPT !.idx = f.nfiles, !.outcomes = Append(@, o)],
               "loading", Msg("failed", file, 0))

\* One turn of "for file_path in file_paths": what the loop does with the
\* outcome o of load_document on the next file
LoadStep(f, o) ==
    LET file == f.idx + 1 IN
    IF o.ok
    THEN Yield([f EXCEPT !.idx = file, !.outcomes = Append(@, o),
                         !.all_documents = @ \o Stamp(file, o.lens)],
               "loading", Msg("loaded", file, Len(o.lens)))
    ELSE Yield([f EXCEPT !.idx = file, !.outcomes = Append(@, o)],
               "loading", Msg("failed", file, 0))

LoadFile(r, o) ==
    /\ handlers[r].pc = "loading"
    /\ handlers[r].idx < handlers[r].nfiles
    /\ handlers' = [handlers EXCEPT ![r] = LoadStep(@, o)]
    /\ UNCHANGED <<llm, vector_store, collection, resp, last, uploads, env>>

\* After the loop: "if not all_documents" or the total
AfterLoadStep(f) ==
    IF f.all_documents = <<>>
    THEN Yield(f, "terminal", Msg("no_documents", 0, 0))
    ELSE Yield(f, "total", Msg("total", 0, TotalChars(f.all_documents)))

AfterLoad(r) ==
    /\ handlers[r].pc = "loading"
    /\ handlers[r].idx = handlers[r].nfiles
    /\ handlers' = [handlers EXCEPT ![r] = AfterLoadStep(@)]
    /\ UNCHANGED <<llm, vector_store, collection, resp, last, uploads, env>>

Splitting(r) ==
    /\ handlers[r].pc = "total"
    /\ handlers' = [handlers EXCEPT ![r] = Yield(@, "splitting", Msg("splitting", 0, 0))]
    /\ UNCHANGED <<llm, vector_store, collection, resp, last, uploads, env>>

\* chunks = splitter.split_documents(all_documents); "if not chunks"
SplitStep(f) ==
    LET chunks == SplitDocuments(f.all_documents) IN
    IF chunks = <<>>
    THEN Yield([f EXCEPT !.chunks = chunks], "terminal", Msg("chunk_failed", 0, 0))
    ELSE Yield([f EXCEPT !.chunks = chunks], "created", Msg("created", 0, Len(chunks)))

Split(r) ==
    /\ handlers[r].pc = "splitting"
    /\ handlers' = [handlers EXCEPT ![r] = SplitStep(@)]
    /\ UNCHANGED <<llm, vector_store, collection, resp, last, uploads, env>>

Storing(r) ==
    /\ handlers[r].pc = "created"
    /\ handlers' = [handlers EXCEPT ![r] = Yield(@, "storing", Msg("storing", 0, 0))]
    /\ UNCHANGED <<llm, vector_store, collection, resp, last, uploads, env>>

\* The status yielded once add_documents and count() have returned
StoredStatus(count) == Msg("success", 0, count)

\* add_documents stores every chunk, count() returns
StoreOk(r) ==
    /\ handlers[r].pc = "storing"
    /\ collection' = collection \cup
           Stored(r, Len(handlers[r].chunks))
    /\ handlers' = [handlers EXCEPT ![r] =
           Yield(@, "terminal", StoredStatus(Cardinality(collection')))]
    /\ UNCHANGED <<llm, vector_store, resp, last, uploads, env>>

\* add_documents raises with the first n chunks written (n below the
\* number of chunks), or count() raises after all were written
StoreFails(r, n) ==
    /\ handlers[r].pc = "storing"
    /\ n \in 0..Len(handlers[r].chunks)
    /\ collection' = collection \cup Stored(r, n)
    /\ handlers' = [handlers EXCEPT ![r] =
           Yield(@, "terminal", Msg("storage_error", 0, 0))]
    /\ UNCHANGED <<llm, vector_store, resp, last, uploads, env>>

\* The generator is exhausted; the handler builds its response
UploadReturn(r) ==
    /\ handlers[r].pc = "terminal"
    /\ resp' = UploadResponse(r, handlers[r])
    /\ last' = Event("upload", resp'.final, resp'.chunks_created)
    /\ handlers' = WithoutFrame(handlers, r)
    /\ UNCHANGED <<llm, vector_store, collection, uploads, env>>

----------------------------------------------------------------------------
\* POST /v1/query: query_documents

QueryResponse(a) ==
    [kind |-> "query",
     http |-> IF a.raised = "RuntimeError" THEN 400 ELSE 200,
     body |-> a]

QueryBlank ==
    /\ LoopIdle
    /\ resp' = [kind |-> "query", http |-> 400,
                body |-> Answer("HTTPException", "", "", <<>>, <<>>, FALSE, FALSE)]
    /\ env' = NoFailure
    /\ UNCHANGED <<llm, vector_store, collection, handlers, last, uploads>>

Query(countFails, searchFails, hits, llmFails) ==
    /\ LoopIdle
    /\ resp' = QueryResponse(GenerateAnswer(vector_store, Cardinality(collection),
                                            countFails, searchFails, hits, llmFails))
    /\ env' = Failures(countFails, searchFails, llmFails)
    /\ UNCHANGED <<llm, vector_store, collection, handlers, last, uploads>>

----------------------------------------------------------------------------
\* DELETE /v1/reset: reset_knowledge_base

\* "if rag.vector_store:" on the path where reset_collection() returns:
\* what is left of collection c under handle vs
ResetKnowledgeBase(vs, c) == IF vs = "Ready" THEN ResetCollection(c) ELSE c

ResetOk ==
    /\ LoopIdle
    /\ collection' = ResetKnowledgeBase(vector_store, collection)
    /\ resp' = [kind |-> "reset", http |-> 200,
                status |-> IF vector_store = "Ready" THEN "reset_complete"
                           ELSE "not_initialized"]
    /\ last' = Event("reset", resp'.status, 0)
    /\ UNCHANGED <<llm, vector_store, handlers, uploads, env>>

ResetFails ==
    /\ LoopIdle
    /\ vector_store = "Ready"
    /\ collection' \in {collection, {}}
    /\ resp' = [kind |-> "reset", http |-> 500, status |-> "error"]
    /\ last' = Event("reset", "error", 0)
    /\ UNCHANGED <<llm, vector_store, handlers, uploads, env>>

----------------------------------------------------------------------------
\* GET /v1/stats: get_statistics

StatsBody(vs, cnt, countFails) ==
    IF vs = "Ready"
    THEN IF countFails
         THEN [kind |-> "stats", total_chunks |-> -1, status |-> "error"]
         ELSE [kind |-> "stats", total_chunks |-> cnt,
               status |-> IF cnt > 0 THEN "initialized" ELSE "empty"]
    ELSE [kind |-> "stats", total_chunks |-> 0, status |-> "not_initialized"]

Stats(countFails) ==
    /\ LoopIdle
    /\ resp' = StatsBody(vector_store, Cardinality(collection), countFails)
    /\ UNCHANGED <<llm, vector_store, collection, handlers, last, uploads, env>>

----------------------------------------------------------------------------
\* The process ends and starts again: the module globals are None again, the
\* requests in flight are gone, the persist directory is as it was.  The
\* event keeps how the upload before the restart, if any, had ended

Restart ==
    /\ llm' = "None"
    /\ vector_store' = "None"
    /\ handlers' = NoFrames
    /\ resp' = [kind |-> "restart"]
    /\ last' = Event("restart", last.final, last.n)
    /\ UNCHANGED <<collection, uploads, env>>

----------------------------------------------------------------------------
\* The most chunks one upload can store: every file the richest outcome
MaxChunks == MaxFiles * (SplitCount(500) + SplitCount(3000))

Ingest ==
    \/ \E n \in 1..MaxFiles : UploadStart(n)
    \/ \E r \in DOMAIN handlers : InitializeOk(r)
    \/ \E r \in DOMAIN handlers : InitializeLlmFails(r)
    \/ \E r \in DOMAIN handlers : InitializeStoreFails(r)
    \/ \E r \in DOMAIN handlers : ClearOk(r)
    \/ \E r \in DOMAIN handlers : ClearFails(r)
    \/ \E r \in DOMAIN handlers, o \in LoadOutcomes : LoadFile(r, o)
    \/ \E r \in DOMAIN handlers : AfterLoad(r)
    \/ \E r \in DOMAIN handlers : Splitting(r)
    \/ \E r \in DOMAIN handlers : Split(r)
    \/ \E r \in DOMAIN handlers : Storing(r)
    \/ \E r \in DOMAIN handlers : StoreOk(r)
    \/ \E r \in DOMAIN handlers, n \in 0..MaxChunks : StoreFails(r, n)
    \/ \E r \in DOMAIN handlers : UploadReturn(r)

Ask ==
    \/ QueryBlank
    \/ \E cf \in BOOLEAN, sf \in BOOLEAN, lf \in BOOLEAN :
          \E hits \in HitLists(IF sf THEN 0 ELSE Cardinality(collection)) :
              Query(cf, sf, hits, lf)

Next ==
    \/ Ingest
    \/ ResetOk
    \/ ResetFails
    \/ \E cf \in BOOLEAN : Stats(cf)
    \/ Restart

\* Ingestion, reset, statistics and restarts, from the first start
Spec == Init /\ [][Next]_vars

\* The states a query can find the process in: the handle set or not, the
\* collection holding any number of chunks of an earlier upload
QueryInit ==
    /\ vector_store \in {"None", "Ready"}
    /\ llm \in {"None", "Ready"}
    /\ vector_store = "Ready" => llm = "Ready"
    /\ collection \in {Stored(1, n) : n \in 0..MaxChunks}
    /\ handlers = NoFrames
    /\ resp = NoResp
    /\ last = Event("none", "", 0)
    /\ uploads = 1
    /\ env = NoFailure

\* Queries against each of these states
SpecQuery == QueryInit /\ [][Ask]_vars

----------------------------------------------------------------------------
\* Properties of generate_answer (under SpecQuery)

IsQuery == resp.kind = "query" /\ resp.body.raised # "HTTPException"

AllAtOrAbove(hits) == \A i \in 1..Len(hits) : hits[i] >= RELEVANCE_THRESHOLD

BelowRanks(hits) == {i \in 1..Len(hits) : hits[i] < RELEVANCE_THRESHOLD}

\* C1: when the similarity query returns a non-empty hit list in which every
\* score is at least 2.5, the model is invoked with the first min(4, number
\* of hits) hits in rank order, never with none.
C1_RelevanceFallback ==
    (IsQuery /\ resp.body.hits # <<>> /\ AllAtOrAbove(resp.body.hits)) =>
        /\ resp.body.invoked
        /\ resp.body.ctx # <<>>
        /\ Len(resp.body.ctx) = Min(4, Len(resp.body.hits))
        /\ \A i \in 1..Len(resp.body.ctx) : resp.body.ctx[i] = i

C1_Witness ==
    /\ IsQuery
    /\ resp.body.invoked
    /\ Len(resp.body.hits) = 6
    /\ AllAtOrAbove(resp.body.hits)
    /\ resp.body.ctx = <<1, 2, 3, 4>>

\* C2: when some hit scores below 2.5, the context holds only hits below
\* 2.5, namely the first at most 5 of them in the rank order of the hit
\* list; and whenever the model is invoked, it is with 1 to 5 chunks.
C2_ContextSelection ==
    IsQuery =>
        /\ resp.body.invoked => Len(resp.body.ctx) \in 1..5
        /\ BelowRanks(resp.body.hits) # {} =>
            /\ resp.body.invoked
            /\ Len(resp.body.ctx) = Min(5, Cardinality(BelowRanks(resp.body.hits)))
            /\ \A i \in 1..Len(resp.body.ctx) :
                   resp.body.ctx[i] \in BelowRanks(resp.body.hits)
            /\ \A i \in 1..(Len(resp.body.ctx) - 1) :
                   resp.body.ctx[i] < resp.body.ctx[i + 1]
            /\ \A j \in BelowRanks(resp.body.hits) :
                   j < resp.body.ctx[Len(resp.body.ctx)] =>
                       \E i \in 1..Len(resp.body.ctx) : resp.body.ctx[i] = j

C2_Witness ==
    /\ IsQuery
    /\ resp.body.invoked
    /\ Cardinality(BelowRanks(resp.body.hits)) = 6
    /\ resp.body.ctx = <<1, 2, 3, 4, 5>>

\* C3: generate_answer raises exactly when the store handle is None, and
\* then before the store or the model is touched, and the API answers 400;
\* with the handle set, a failing count check, similarity query or model
\* call still gives an (answer, sources) pair, and a failed query or model
\* call gives an error text with sources "".
C3_ErrorPropagation ==
    IsQuery =>
        /\ (resp.body.raised # "no") <=> (vector_store = "None")
        /\ vector_store = "None" =>
            /\ resp.body.raised = "RuntimeError"
            /\ resp.http = 400
            /\ ~resp.body.searched
            /\ ~resp.body.invoked
        /\ vector_store = "Ready" =>
            /\ resp.http = 200
            /\ resp.body.answer # ""
            /\ (resp.body.searched /\ env.search) =>
                   resp.body.answer = "error_searching" /\ resp.body.sources = ""
            /\ (resp.body.invoked /\ env.llm) =>
                   resp.body.answer = "error_generating" /\ resp.body.sources = ""
            /\ env.count => resp.body.searched

C3_Witness ==
    /\ IsQuery
    /\ vector_store = "None"
    /\ collection # {}
    /\ resp.body.raised = "RuntimeError"
    /\ resp.http = 400

\* C4: a query against an initialized store whose count() is 0 gets the
\* "knowledge base is empty" answer with sources "", and neither the
\* similarity query nor the model is called.
C4_EmptyStore ==
    (IsQuery /\ vector_store = "Ready" /\ collection = {} /\ ~env.count) =>
        /\ resp.body.raised = "no"
        /\ resp.body.answer = "kb_empty"
        /\ resp.body.sources = ""
        /\ ~resp.body.searched
        /\ ~resp.body.invoked

C4_Witness ==
    /\ IsQuery
    /\ vector_store = "Ready"
    /\ collection = {}
    /\ resp.body.answer = "kb_empty"

----------------------------------------------------------------------------
\* Properties of ingestion, reset and statistics (under Spec)

LastMsg(st) == st[Len(st)]

Frames == {handlers[r] : r \in DOMAIN handlers}

\* C5: the chunks a successful upload stored before a restart are still in
\* the collection after it and are still counted by stats.
C5_SurvivesRestart ==
    (last.kind = "restart" /\ last.final = "success") =>
        /\ Cardinality(collection) = last.n
        /\ (resp.kind = "stats" /\ resp.status # "error") =>
               resp.total_chunks = last.n

\* C6: when an upload has ended with the success status, the count in that
\* status is the number of chunks the call created and the collection holds
\* exactly those chunks, whatever it held before; when it has ended with
\* "no documents loaded" or "failed to create chunks", the collection is
\* empty; a stats call after a successful upload reports the same count.
C6_CollectionIsLastIngestion ==
    /\ (resp.kind = "upload" /\ resp.final = "success") =>
           /\ resp.created > 0
           /\ resp.chunks_created = resp.created
           /\ LastMsg(resp.stream).n = resp.created
           /\ collection = Stored(resp.req, resp.created)
    /\ (resp.kind = "upload" /\ resp.final \in {"no_documents", "chunk_failed"}) =>
           Cardinality(collection) = 0
    /\ (resp.kind = "stats" /\ resp.status # "error"
          /\ last.kind = "upload" /\ last.final = "success") =>
           /\ last.n > 0
           /\ resp.total_chunks = last.n
           /\ resp.total_chunks = Cardinality(collection)

C6_Witness ==
    /\ resp.kind = "stats"
    /\ last = Event("upload", "success", 5)
    /\ uploads = 2
    /\ resp.total_chunks = 5

\* C7: handlers are serialized: at most one is in flight, and while an
\* ingestion is between its clear step and its return nothing else writes
\* the collection: it holds only chunks of that ingestion, and once success
\* is yielded it holds all of them and the count yielded is their number.
C7_Serialized ==
    /\ Cardinality(DOMAIN handlers) <= 1
    /\ \A r \in DOMAIN handlers :
          handlers[r].pc \notin {"initializing", "clearing"} =>
              /\ collection \subseteq Stored(r, Len(handlers[r].chunks))
              /\ LastMsg(handlers[r].stream).kind = "success" =>
                    /\ collection = Stored(r, Len(handlers[r].chunks))
                    /\ LastMsg(handlers[r].stream).n = Len(handlers[r].chunks)

C7_Witness ==
    \E r \in DOMAIN handlers :
        /\ r = 2
        /\ LastMsg(handlers[r].stream) = Msg("success", 0, 4)
        /\ collection = Stored(2, 4)

\* The segments the loaded files gave, in input order
RECURSIVE LoadedDocs(_, _)
LoadedDocs(outcomes, i) ==
    IF i > Len(outcomes) THEN <<>>
    ELSE (IF outcomes[i].ok
          THEN [j \in 1..Len(outcomes[i].lens) |->
                   [source |-> i, len |-> outcomes[i].lens[j]]]
          ELSE <<>>) \o LoadedDocs(outcomes, i + 1)

RECURSIVE SumLens(_)
SumLens(docs) == IF docs = <<>> THEN 0 ELSE Head(docs).len + SumLens(Tail(docs))

\* One message per file handled so far, in input order, after the three
\* opening messages: a failure marker or a loaded marker
PerFileMessages(st, outcomes) ==
    /\ Cardinality({k \in 1..Len(st) : st[k].kind \in {"loaded", "failed"}})
           = Len(outcomes)
    /\ \A i \in 1..Len(outcomes) :
           /\ Len(st) >= 3 + i
           /\ st[3 + i].file = i
           /\ st[3 + i].kind = IF outcomes[i].ok THEN "loaded" ELSE "failed"
           /\ outcomes[i].ok => st[3 + i].n = Len(outcomes[i].lens)

\* C8: load failures are recovered per file: each file gets exactly one
\* message, in input order, files after a failing one are still loaded, and
\* the segments of every loaded file reach the chunking step.
C8_PerFileRecovery ==
    /\ \A f \in Frames :
          /\ PerFileMessages(f.stream, f.outcomes)
          /\ f.all_documents = LoadedDocs(f.outcomes, 1)
          /\ f.pc = "loading" => Len(f.outcomes) = f.idx
          /\ f.pc \in {"total", "splitting", "created", "storing", "terminal"} =>
                Len(f.outcomes) = f.nfiles
          /\ f.pc \in {"total", "splitting", "created", "storing"} =>
                f.stream[4 + f.nfiles] = Msg("total", 0, SumLens(LoadedDocs(f.outcomes, 1)))
          /\ f.pc \in {"created", "storing"} =>
                \A i \in 1..Len(f.outcomes) :
                    (f.outcomes[i].ok /\ \E j \in 1..Len(f.outcomes[i].lens) :
                                             f.outcomes[i].lens[j] > 0) =>
                        \E k \in 1..Len(f.chunks) : f.chunks[k].source = i
    /\ (resp.kind = "upload" /\ resp.http = 200) =>
          /\ PerFileMessages(resp.stream, resp.outcomes)
          /\ Len(resp.outcomes) = resp.files_processed

C8_Witness ==
    /\ resp.kind = "upload"
    /\ resp.final = "success"
    /\ Len(resp.outcomes) = 2
    /\ ~resp.outcomes[1].ok
    /\ resp.outcomes[2].ok
    /\ resp.stream[4] = Msg("failed", 1, 0)
    /\ resp.stream[5] = Msg("loaded", 2, 2)
    /\ resp.created = 5

\* The fixed stage order: what may stand at position k of the stream of a
\* call on n files
StageOK(st, k, n) ==
    CASE k = 1 -> st[k].kind = "initializing"
      [] k = 2 -> st[k].kind = "clearing"
      [] k = 3 -> st[k].kind = "loading"
      [] k \in 4..(3 + n) -> st[k].kind \in {"loaded", "failed"}
      [] k = 4 + n -> st[k].kind \in {"no_documents", "total"}
      [] k = 5 + n -> st[k].kind = "splitting"
      [] k = 6 + n -> st[k].kind \in {"chunk_failed", "created"}
      [] k = 7 + n -> st[k].kind = "storing"
      [] k = 8 + n -> st[k].kind \in {"success", "storage_error"}
      [] OTHER -> FALSE

WellOrdered(st, n) ==
    \A k \in 1..Len(st) :
        /\ StageOK(st, k, n)
        /\ k < Len(st) => st[k].kind \notin TerminalKinds

\* C9: every call's stream follows the fixed stage order, nothing follows a
\* terminal status, and a call that has ended has a terminal status as its
\* last message: no failure leaves the generator as an exception.
C9_TerminalStatus ==
    /\ \A f \in Frames : WellOrdered(f.stream, f.nfiles)
    /\ resp.kind = "upload" =>
          /\ WellOrdered(resp.stream, resp.files_processed)
          /\ LastMsg(resp.stream).kind \in TerminalKinds
          /\ resp.final # "exception"

\* C10: after a reset that completed without error the collection is empty
\* and a stats call reports 0, whatever the state before, a restart with
\* persisted chunks included.
C10_ResetEmpties ==
    /\ (resp.kind = "reset" /\ resp.http = 200) => collection = {}
    /\ (resp.kind = "stats" /\ resp.status # "error"
          /\ last.kind = "reset" /\ last.final # "error") =>
           resp.total_chunks = 0 /\ collection = {}

====
